---- MODULE Spec2Model ----
(***************************************************************************)
(* A model of the TwitchAutoFarm server core: the in-memory entity store   *)
(* (src/server/storage.ts, class MemStorage), the HTTP route handlers that *)
(* drive it (src/server/routes.ts) and the Discord notification sink       *)
(* (src/unnamed/part_008, imported by the store as ./discord-logger); and  *)
(* of the client's betting helpers (src/client/src/lib/twitch-helpers.ts): *)
(* the choice of a prediction outcome and the payout estimate, two pure    *)
(* functions over JavaScript numbers, which are called on their own.       *)
(*                                                                         *)
(* Scheduling.  The server is one Node.js event loop.  An `await` on a     *)
(* MemStorage method other than createLog resumes in the same microtask    *)
(* drain, so the code of a handler between two real I/O waits runs without *)
(* any other handler in between.  The real waits of the handlers modelled  *)
(* here are the fetch() inside sendDiscordLog, which createLog awaits      *)
(* AFTER taking the log id and BEFORE pushing the entry, and the           *)
(* bcrypt.hash() of a registration, between its username check and         *)
(* createUser.  A handler that logs, or registers, is therefore two steps: *)
(* everything up to the wait, and the continuation once it is over.  Any   *)
(* number of handlers may be suspended at the same time, and they resume   *)
(* in any order.                                                           *)
(*                                                                         *)
(* Left out: timestamps (Farm.lastActivity, Log.timestamp, Stat.date), the *)
(* opaque credential fields of an Account and Farm.predictionSettings,     *)
(* which no modelled operation reads.                                      *)
(***************************************************************************)
EXTENDS Integers, Sequences, FiniteSets, Bags, TLC

VARIABLES
    users,             \* MemStorage.users : Map<number, User>
    accounts,          \* MemStorage.accounts : Map<number, Account>
    farms,             \* MemStorage.farms : Map<number, Farm>
    logs,              \* MemStorage.logs : Log[]
    currentStats,      \* MemStorage.currentStats : Stat
    currentUserId,     \* MemStorage.currentUserId
    currentAccountId,  \* MemStorage.currentAccountId
    currentFarmId,     \* MemStorage.currentFarmId
    currentLogId,      \* MemStorage.currentLogId
    pending,           \* handlers suspended in createLog at `await sendDiscordLog(log)`
    hashing,           \* registrations suspended at `await bcrypt.hash(password, 10)`
    reported,          \* ids of the entries whose failed forward console.error reported
    call,              \* the twitch-helpers function being called, with its arguments
    returned           \* what that call returned

vars == <<users, accounts, farms, logs, currentStats, currentUserId,
          currentAccountId, currentFarmId, currentLogId, pending, hashing,
          reported, call, returned>>

\* no helper is being called / the call has not returned / it returned v
NoCall == [fn |-> "none"]
NotReturned == [done |-> FALSE]
Returned(v) == [done |-> TRUE, value |-> v]

----------------------------------------------------------------------------
(* Bounds of the model. *)

\* account and farm ids handed out in one run, taken together
MaxRecords == 3
\* optimize requests in one run (the handler has no counter of its own)
MaxOptimize == 1
\* handlers suspended in createLog at the same time
MaxPending == 1
\* forwards to the sink that fail in one run
MaxSinkFailures == 1
\* outcomes of a prediction
MaxOutcomes == 3
\* points in an outcome's pool, for the betting decision
MaxPoints == 2
\* users backing an outcome
MaxUsers == 1
\* createLog calls of the log-retention specification beyond LogLimit
ExtraAppends == 3
\* entries short of LogLimit in the filled log that specification may start from
Headroom == 60

(* Program constants. *)

\* storage.ts: `if (this.logs.length > 1000) this.logs = this.logs.slice(-1000)`
LogLimit == 1000
\* routes.ts: `Math.min(98, ...)`
RateCap == 98

----------------------------------------------------------------------------
(* Request inputs. *)

\* Farm.features objects a request may carry
FeatureSets ==
    {[claimPoints |-> TRUE, watchTime |-> w, predictions |-> p, claimDrops |-> FALSE]
        : w \in {FALSE}, p \in BOOLEAN}
DefaultFeatures ==
    [claimPoints |-> TRUE, watchTime |-> FALSE, predictions |-> FALSE, claimDrops |-> FALSE]
\* the key order of a features object, as Object.entries walks it
FeatureOrder == <<"claimPoints", "watchTime", "predictions", "claimDrops">>
Presets == {"balanced", "aggressive", "conservative"}

\* ids a request may name: every id handed out so far, and the next one,
\* which no record has yet
AccountRefs == 1..currentAccountId
FarmRefs == 1..currentFarmId

\* The columns insertFarmSchema picks; zod strips every other key of the body.
InsertFarmFields == {"accountId", "channelName", "features"}

\* The columns insertAccountSchema picks (credential columns left out).
InsertAccountFields == {"name"}

\* POST /api/farms bodies: well-formed ones, one that also carries columns
\* the schema does not pick, and one without the required accountId.
FarmBodies ==
    {[accountId |-> a, channelName |-> "foo", features |-> fs]
        : a \in AccountRefs, fs \in FeatureSets}
    \cup {[accountId |-> a, channelName |-> "foo", features |-> DefaultFeatures,
           status |-> "error", uptime |-> 7, pointsClaimed |-> 7,
           watchTime |-> 7, enabled |-> FALSE] : a \in AccountRefs}
    \cup {[channelName |-> "foo", features |-> DefaultFeatures]}

\* POST /api/accounts bodies: a well-formed one and one without the name.
AccountBodies == {[name |-> "main"], [active |-> FALSE]}

\* PATCH /api/farms/:id bodies (req.body is passed to the store unvalidated).
FarmPatches ==
    {[status |-> "offline", channelName |-> "bar"]}
    \cup {[accountId |-> a] : a \in AccountRefs}
    \cup {[id |-> i] : i \in FarmRefs}

\* PATCH /api/accounts/:id bodies (unvalidated as well).
AccountPatches == {[active |-> FALSE]}

----------------------------------------------------------------------------
(* Helpers for JavaScript objects, maps and arrays. *)

\* { ...rec, ...patch }
Spread(rec, patch) ==
    [f \in (DOMAIN rec) \cup (DOMAIN patch) |->
        IF f \in DOMAIN patch THEN patch[f] ELSE rec[f]]

\* zod's object parse with the default "strip" policy
Pick(body, fields) == [f \in (DOMAIN body) \cap fields |-> body[f]]

\* Map.set(key, value)
MapSet(map, key, value) ==
    [k \in (DOMAIN map) \cup {key} |-> IF k = key THEN value ELSE map[k]]

\* Map.delete(key)
MapDelete(map, key) == [k \in (DOMAIN map) \ {key} |-> map[k]]

\* Map.has(key) / `map.get(key)` being defined
Has(map, key) == key \in DOMAIN map

\* Math.min(a, b)
Min(a, b) == IF a < b THEN a ELSE b

\* arr.slice(-n) for n >= 1
SliceLast(arr, n) ==
    IF Len(arr) <= n THEN arr ELSE SubSeq(arr, Len(arr) - n + 1, Len(arr))

\* The keys of a Map in iteration order.  Keys are inserted in increasing
\* order (the id counters only grow) and Map.set on a present key keeps its
\* place, so iteration order is increasing key order.
RECURSIVE KeysInOrder(_)
KeysInOrder(S) ==
    IF S = {} THEN <<>>
    ELSE LET m == CHOOSE x \in S : \A y \in S : x <= y
         IN <<m>> \o KeysInOrder(S \ {m})

\* arr.filter(keep).map(x => x).join(", ") over the feature names
RECURSIVE JoinEnabled(_, _, _)
JoinEnabled(features, names, acc) ==
    IF names = <<>> THEN acc
    ELSE LET n == Head(names)
         IN JoinEnabled(features, Tail(names),
                IF features[n]
                THEN (IF acc = "" THEN n ELSE acc \o ", " \o n)
                ELSE acc)

----------------------------------------------------------------------------
(* MemStorage: the methods as functions of the fields they read. *)

\* createAccount: the record built from the insert data and the next id
NewAccount(insertAccount, id) ==
    Spread(insertAccount, [id |-> id, active |-> TRUE])

\* createFarm: the record built from the insert data and the next id; the
\* derived columns are written after the spread and so override it
NewFarm(insertFarm, id) ==
    Spread(insertFarm,
           [id |-> id, channelId |-> "", profileImage |-> "", status |-> "active",
            uptime |-> 0, pointsClaimed |-> 0, watchTime |-> 0, enabled |-> TRUE])

\* createFarm without the stats update
createFarmNoCount(st, insertFarm) ==
    [farms |-> MapSet(st.farms, st.nextId, NewFarm(insertFarm, st.nextId)),
     stats |-> st.stats,
     nextId |-> st.nextId + 1,
     farm |-> NewFarm(insertFarm, st.nextId)]

\* createFarm on a store state st = [farms, stats, nextId]
createFarm(st, insertFarm) ==
    [farms |-> MapSet(st.farms, st.nextId, NewFarm(insertFarm, st.nextId)),
     stats |-> [st.stats EXCEPT !.activeFarms = @ + 1],
     nextId |-> st.nextId + 1,
     farm |-> NewFarm(insertFarm, st.nextId)]

\* getFarmsByAccountId: the farms of an account, in Map iteration order
getFarmsByAccountId(fs, accountId) ==
    LET keys == KeysInOrder({k \in DOMAIN fs : fs[k].accountId = accountId})
    IN [i \in 1..Len(keys) |-> fs[keys[i]]]

\* deleteFarm that decrements without looking the farm up
deleteFarmAlways(st, id) ==
    [farms |-> MapDelete(st.farms, id),
     stats |-> [st.stats EXCEPT !.activeFarms = @ - 1],
     result |-> Has(st.farms, id)]

\* deleteFarm on a store state st = [farms, stats]: the state after the call
\* and the boolean it returns
deleteFarm(st, id) ==
    [farms |-> MapDelete(st.farms, id),
     stats |-> IF Has(st.farms, id)
               THEN [st.stats EXCEPT !.activeFarms = @ - 1]
               ELSE st.stats,
     result |-> Has(st.farms, id)]

\* the loop of deleteAccount: deleteFarm(farm.id) for each enumerated farm
RECURSIVE deleteEach(_, _)
deleteEach(st, accountFarms) ==
    IF accountFarms = <<>> THEN st
    ELSE deleteEach(deleteFarm(st, Head(accountFarms).id), Tail(accountFarms))

\* deleteAccount on a store state st = [accounts, farms, stats]
deleteAccount(st, id) ==
    LET accountFarms == getFarmsByAccountId(st.farms, id)
        after == deleteEach([farms |-> st.farms, stats |-> st.stats], accountFarms)
    IN [accounts |-> MapDelete(st.accounts, id),
        farms |-> after.farms,
        stats |-> after.stats,
        result |-> Has(st.accounts, id)]

\* updateFarm that puts the status back to its initial value on every update
updateFarmResetsStatus(fs, id, farmUpdate) ==
    IF ~Has(fs, id) THEN fs
    ELSE MapSet(fs, id, Spread(Spread(fs[id], farmUpdate), [status |-> "active"]))

\* updateFarm / updateAccount: the map after the call (unchanged on a miss)
updateFarm(fs, id, farmUpdate) ==
    IF ~Has(fs, id) THEN fs ELSE MapSet(fs, id, Spread(fs[id], farmUpdate))

updateAccount(as, id, accountUpdate) ==
    IF ~Has(as, id) THEN as ELSE MapSet(as, id, Spread(as[id], accountUpdate))

\* arr.slice(start): a negative start counts from the end, and -0 is 0, so
\* slice(-0) is the whole array
Slice(arr, start) ==
    LET from == IF start < 0
                THEN (IF Len(arr) + start < 0 THEN 0 ELSE Len(arr) + start)
                ELSE Min(start, Len(arr))
    IN SubSeq(arr, from + 1, Len(arr))

\* arr.reverse()
Reverse(arr) == [i \in 1..Len(arr) |-> arr[Len(arr) + 1 - i]]

\* getLogs(limit)
getLogs(ls, limit) == Reverse(Slice(ls, -limit))

\* what Array.prototype.find and Map.get return: the element, or undefined
undefined == [defined |-> FALSE]
Defined(v) == [defined |-> TRUE, value |-> v]

\* getUserByUsername: the first user of that name in Map iteration order
getUserByUsername(us, username) ==
    LET keys == KeysInOrder({k \in DOMAIN us : us[k].username = username})
    IN IF keys = <<>> THEN undefined ELSE Defined(us[keys[1]])

\* createUser on a store state st = [users, nextId]
createUser(st, insertUser) ==
    [users |-> MapSet(st.users, st.nextId, Spread(insertUser, [id |-> st.nextId])),
     nextId |-> st.nextId + 1,
     user |-> Spread(insertUser, [id |-> st.nextId])]

\* getAccount / getFarm: Map.get
getAccount(as, id) == IF Has(as, id) THEN Defined(as[id]) ELSE undefined

getFarm(fs, id) == IF Has(fs, id) THEN Defined(fs[id]) ELSE undefined

\* updateStats
updateStats(stats, statsUpdate) == Spread(stats, statsUpdate)

\* createLog, first half: the entry built from the insert data and the next id
NewLog(insertLog, id) == Spread(insertLog, [id |-> id])

\* createLog, second half, trimming from the wrong end
PushLogKeepsOldest(ls, log) ==
    LET pushed == Append(ls, log)
    IN IF Len(pushed) > LogLimit THEN SubSeq(pushed, 1, LogLimit) ELSE pushed

\* createLog, second half: push, then keep the newest LogLimit entries
PushLog(ls, log) ==
    LET pushed == Append(ls, log)
    IN IF Len(pushed) > LogLimit THEN SliceLast(pushed, LogLimit) ELSE pushed

----------------------------------------------------------------------------
(* The log entries the route handlers write. *)

StartLog(farm, account) ==
    [accountId |-> farm.accountId,
     accountName |-> account.name,
     channelId |-> farm.channelId,
     channelName |-> farm.channelName,
     event |-> "Started farming channel " \o farm.channelName,
     status |-> "success",
     details |-> "Enabled features: " \o JoinEnabled(farm.features, FeatureOrder, "")]

StopLog(farm, account) ==
    [accountId |-> farm.accountId,
     accountName |-> account.name,
     channelId |-> farm.channelId,
     channelName |-> farm.channelName,
     event |-> "Stopped farming channel " \o farm.channelName,
     status |-> "info",
     details |-> "Farm deleted by user"]

OptimizeLog(preset) ==
    [accountId |-> 0,
     accountName |-> "System",
     channelId |-> "",
     channelName |-> "All Channels",
     event |-> "Optimization Wizard ran with " \o preset \o " preset",
     status |-> "success",
     details |-> "Applied " \o preset \o " optimization"]

\* The boost POST /api/optimize adds to predictionRate.
optimizationBoost(preset) ==
    IF preset = "aggressive" THEN 4
    ELSE IF preset = "conservative" THEN 1 ELSE 2


----------------------------------------------------------------------------
(* Route handlers, as functions of the server state.  A handler returns the *)
(* state it leaves and the response it sends; status 0 means it sent none   *)
(* yet because it is suspended in createLog.                                *)

\* The server state as one record.
State ==
    [accounts |-> accounts, farms |-> farms, logs |-> logs,
     stats |-> currentStats, accountId |-> currentAccountId,
     farmId |-> currentFarmId, logId |-> currentLogId, pending |-> pending,
     reported |-> reported, users |-> users, userId |-> currentUserId,
     hashing |-> hashing]

Reply(st, status, message) == [st |-> st, status |-> status, message |-> message]

\* A handler suspended in createLog: the entry it built and what it needs to
\* finish (its route, the id it answers about, the optimize preset).
Suspended(route, key, log, preset) ==
    [route |-> route, key |-> key, log |-> log, preset |-> preset]

\* createLog up to `await sendDiscordLog(log)`: the id is taken, the entry
\* built, and the calling handler waits for the sink.
createLog(st, insertLog, route, key, preset) ==
    [st EXCEPT !.logId = @ + 1,
               !.pending = @ \cup {Suspended(route, key,
                                             NewLog(insertLog, st.logId), preset)}]

\* The columns insertUserSchema picks.
InsertUserFields == {"username", "password"}

\* bcrypt.hash(password, 10): a salted hash, never the password itself
bcryptHash(password) == "$2a$10$" \o password

\* POST /api/auth/register, up to `await bcrypt.hash(password, 10)`.  bcryptjs
\* computes the hash in slices scheduled on the event loop, so other requests
\* are handled while this one waits.
Register(st, body) ==
    IF ~(InsertUserFields \subseteq DOMAIN body)
    THEN Reply(st, 400, "Invalid registration data")
    ELSE IF getUserByUsername(st.users, body.username).defined
    THEN Reply(st, 409, "Username already exists")
    ELSE Reply([st EXCEPT !.hashing = @ (+) SetToBag({Pick(body, InsertUserFields)})],
               0, "")

\* POST /api/auth/register from the hash on: the user is created and the
\* handler answers.  h is the validated data the handler was suspended with.
Registered(st, h) ==
    LET r == createUser([users |-> st.users, nextId |-> st.userId],
                        [username |-> h.username,
                         password |-> bcryptHash(h.password)])
    IN Reply([st EXCEPT !.hashing = @ (-) SetToBag({h}),
                        !.users = r.users, !.userId = r.nextId],
             201, "User registered successfully")

\* POST /api/accounts that gives a new account the lowest id no account holds
PostAccountFillsGap(st, body) ==
    LET free == CHOOSE i \in 1..st.accountId :
                    /\ ~Has(st.accounts, i)
                    /\ \A j \in 1..(i - 1) : Has(st.accounts, j)
    IN IF ~(InsertAccountFields \subseteq DOMAIN body)
       THEN Reply(st, 400, "Invalid account data")
       ELSE Reply([st EXCEPT
                     !.accounts = MapSet(@, free,
                                         NewAccount(Pick(body, InsertAccountFields),
                                                    free)),
                     !.accountId = @ + 1],
                  201, "")

\* POST /api/accounts
PostAccount(st, body) ==
    IF ~(InsertAccountFields \subseteq DOMAIN body)
    THEN Reply(st, 400, "Invalid account data")
    ELSE Reply([st EXCEPT
                  !.accounts = MapSet(@, st.accountId,
                                      NewAccount(Pick(body, InsertAccountFields),
                                                 st.accountId)),
                  !.accountId = @ + 1],
               201, "")

\* PATCH /api/accounts/:id
PatchAccount(st, id, body) ==
    IF ~Has(st.accounts, id)
    THEN Reply(st, 404, "Account not found")
    ELSE Reply([st EXCEPT !.accounts = updateAccount(@, id, body)], 200, "")

\* DELETE /api/accounts/:id that also drops the account's log entries
DeleteAccountPurgesLogs(st, id) ==
    LET r == deleteAccount([accounts |-> st.accounts, farms |-> st.farms,
                            stats |-> st.stats], id)
        after == [st EXCEPT !.accounts = r.accounts, !.farms = r.farms,
                            !.stats = r.stats,
                            !.logs = SelectSeq(@, LAMBDA log : log.accountId # id)]
    IN IF ~r.result
       THEN Reply(after, 404, "Account not found")
       ELSE Reply(after, 200, "Account deleted successfully")

\* DELETE /api/accounts/:id
DeleteAccount(st, id) ==
    LET r == deleteAccount([accounts |-> st.accounts, farms |-> st.farms,
                            stats |-> st.stats], id)
        after == [st EXCEPT !.accounts = r.accounts, !.farms = r.farms,
                            !.stats = r.stats]
    IN IF ~r.result
       THEN Reply(after, 404, "Account not found")
       ELSE Reply(after, 200, "Account deleted successfully")

\* POST /api/farms that creates the farm before it looks the account up
PostFarmCreatesFirst(st, body) ==
    LET data == Pick(body, InsertFarmFields)
    IN IF ~(InsertFarmFields \subseteq DOMAIN body)
       THEN Reply(st, 400, "Invalid farm data")
       ELSE LET r == createFarm([farms |-> st.farms, stats |-> st.stats,
                                 nextId |-> st.farmId], data)
                created == [st EXCEPT !.farms = r.farms, !.stats = r.stats,
                                      !.farmId = r.nextId]
            IN IF ~Has(st.accounts, data.accountId)
               THEN Reply(created, 400, "Account not found")
               ELSE Reply(createLog(created,
                                    StartLog(r.farm, st.accounts[data.accountId]),
                                    "POST /api/farms", r.farm.id, ""),
                          0, "")

\* POST /api/farms, up to the fetch inside createLog
PostFarm(st, body) ==
    LET data == Pick(body, InsertFarmFields)
    IN IF ~(InsertFarmFields \subseteq DOMAIN body)
       THEN Reply(st, 400, "Invalid farm data")
       ELSE IF ~Has(st.accounts, data.accountId)
       THEN Reply(st, 400, "Account not found")
       ELSE LET r == createFarm([farms |-> st.farms, stats |-> st.stats,
                                 nextId |-> st.farmId], data)
                created == [st EXCEPT !.farms = r.farms, !.stats = r.stats,
                                      !.farmId = r.nextId]
            IN Reply(createLog(created,
                               StartLog(r.farm, st.accounts[data.accountId]),
                               "POST /api/farms", r.farm.id, ""),
                     0, "")

\* PATCH /api/farms/:id that writes a log entry for the update
PatchFarmLogs(st, id, body) ==
    IF ~Has(st.farms, id)
    THEN Reply(st, 404, "Farm not found")
    ELSE Reply(createLog([st EXCEPT !.farms = updateFarm(@, id, body)],
                         [accountId |-> st.farms[id].accountId,
                          accountName |-> "Unknown",
                          channelId |-> "",
                          channelName |-> st.farms[id].channelName,
                          event |-> "Updated farm",
                          status |-> "info",
                          details |-> ""],
                         "PATCH /api/farms/:id", id, ""),
               0, "")

\* PATCH /api/farms/:id
PatchFarm(st, id, body) ==
    IF ~Has(st.farms, id)
    THEN Reply(st, 404, "Farm not found")
    ELSE Reply([st EXCEPT !.farms = updateFarm(@, id, body)], 200, "")

\* DELETE /api/farms/:id that answers success for a farm that is not there
DeleteFarmIdempotent(st, id) ==
    IF ~Has(st.farms, id)
    THEN Reply(st, 200, "Farm deleted successfully")
    ELSE LET farm == st.farms[id]
             r == deleteFarm([farms |-> st.farms, stats |-> st.stats], id)
             deleted == [st EXCEPT !.farms = r.farms, !.stats = r.stats]
         IN IF Has(st.accounts, farm.accountId)
            THEN Reply(createLog(deleted,
                                 StopLog(farm, st.accounts[farm.accountId]),
                                 "DELETE /api/farms/:id", id, ""),
                       0, "")
            ELSE Reply(deleted, 200, "Farm deleted successfully")

\* DELETE /api/farms/:id, up to the fetch inside createLog (or to the end,
\* when the farm's account is not found and nothing is logged)
DeleteFarm(st, id) ==
    IF ~Has(st.farms, id)
    THEN Reply(st, 404, "Farm not found")
    ELSE LET farm == st.farms[id]
             r == deleteFarm([farms |-> st.farms, stats |-> st.stats], id)
             deleted == [st EXCEPT !.farms = r.farms, !.stats = r.stats]
         IN IF ~r.result
            THEN Reply(deleted, 404, "Farm not found")
            ELSE IF Has(st.accounts, farm.accountId)
            THEN Reply(createLog(deleted,
                                 StopLog(farm, st.accounts[farm.accountId]),
                                 "DELETE /api/farms/:id", id, ""),
                       0, "")
            ELSE Reply(deleted, 200, "Farm deleted successfully")

\* POST /api/optimize, up to the fetch inside createLog
Optimize(st, preset) ==
    Reply(createLog(st, OptimizeLog(preset), "POST /api/optimize", 0, preset),
          0, "")

\* the continuation of a handler without the Math.min of POST /api/optimize
ResumeUncapped(st, p) ==
    LET pushed == [st EXCEPT !.pending = @ \ {p}, !.logs = PushLog(@, p.log)]
    IN IF p.route = "POST /api/optimize"
       THEN Reply([pushed EXCEPT !.stats =
                      updateStats(@, [predictionRate |->
                          pushed.stats.predictionRate
                              + optimizationBoost(p.preset)])],
                  200, "")
       ELSE IF p.route = "POST /api/farms"
       THEN Reply(pushed, 201, "")
       ELSE Reply(pushed, 200, "Farm deleted successfully")

\* A suspended handler resumes: sendDiscordLog has settled (delivered, or
\* failed and reported by its catch), createLog pushes the entry and trims,
\* and the handler runs on to its response.
Resume(st, p) ==
    LET pushed == [st EXCEPT !.pending = @ \ {p}, !.logs = PushLog(@, p.log)]
    IN IF p.route = "POST /api/optimize"
       THEN Reply([pushed EXCEPT !.stats =
                      updateStats(@, [predictionRate |->
                          Min(RateCap, pushed.stats.predictionRate
                                         + optimizationBoost(p.preset))])],
                  200, "")
       ELSE IF p.route = "POST /api/farms"
       THEN Reply(pushed, 201, "")
       ELSE Reply(pushed, 200, "Farm deleted successfully")

\* how the fetch of sendDiscordLog settles: the promise resolves (with any
\* HTTP status) or rejects
FetchOutcomes == {"resolved", "rejected"}

\* sendDiscordLog with no catch around the fetch
sendDiscordLogRethrows(outcome) ==
    [completion |-> IF outcome = "rejected" THEN "throws" ELSE "returns",
     reported |-> FALSE]

\* sendDiscordLog from the settling of its fetch on: a rejection is caught
\* and written to console.error, and the function returns either way
sendDiscordLog(outcome) ==
    [completion |-> "returns", reported |-> outcome = "rejected"]

\* The fetch for the entry of the suspended handler p settles.  createLog
\* awaits sendDiscordLog with no catch of its own: were it to throw, createLog
\* and the route handler would reject at the await, and asyncHandler would
\* answer 500; as it returns, createLog and the handler resume.
Settle(st, p, outcome) ==
    LET sent == sendDiscordLog(outcome)
        told == [st EXCEPT !.reported =
                    IF sent.reported THEN @ \cup {p.log.id} ELSE @]
    IN IF sent.completion = "throws"
       THEN Reply([told EXCEPT !.pending = @ \ {p}], 500, "Internal server error")
       ELSE Resume(told, p)

----------------------------------------------------------------------------
(* The state machine. *)

\* The state after `new MemStorage()`.
Init ==
    /\ accounts = <<>>
    /\ farms = <<>>
    /\ logs = <<>>
    /\ currentStats = [id |-> 1, activeFarms |-> 0, pointsClaimed |-> 0,
                       watchHours |-> 0, predictionRate |-> 0]
    /\ currentAccountId = 1
    /\ currentFarmId = 1
    /\ currentLogId = 1
    /\ pending = {}
    /\ reported = {}
    /\ users = <<>>
    /\ currentUserId = 1
    /\ hashing = EmptyBag
    /\ call = NoCall
    /\ returned = NotReturned

\* The server goes to the state a handler leaves.
Becomes(st) ==
    /\ accounts' = st.accounts
    /\ farms' = st.farms
    /\ logs' = st.logs
    /\ currentStats' = st.stats
    /\ currentAccountId' = st.accountId
    /\ currentFarmId' = st.farmId
    /\ currentLogId' = st.logId
    /\ pending' = st.pending
    /\ reported' = st.reported
    /\ users' = st.users
    /\ currentUserId' = st.userId
    /\ hashing' = st.hashing
    /\ UNCHANGED <<call, returned>>

\* account and farm ids handed out so far
RecordsMade == (currentAccountId - 1) + (currentFarmId - 1)

\* optimize requests taken so far: those suspended and those that logged
OptimizeRuns ==
    Cardinality({p \in pending : p.route = "POST /api/optimize"})
    + Cardinality({i \in DOMAIN logs : logs[i].accountName = "System"})

\* A request is taken and the server goes to the state its handler leaves,
\* within the bound on suspended handlers.
Admit(r) ==
    /\ Cardinality(r.st.pending) <= MaxPending
    /\ Becomes(r.st)

ReqPostAccount ==
    /\ RecordsMade < MaxRecords
    /\ \E body \in AccountBodies : Admit(PostAccount(State, body))

ReqPatchAccount ==
    \E id \in AccountRefs, body \in AccountPatches :
        Admit(PatchAccount(State, id, body))

ReqDeleteAccount ==
    \E id \in AccountRefs : Admit(DeleteAccount(State, id))

ReqPostFarm ==
    /\ RecordsMade < MaxRecords
    /\ \E body \in FarmBodies : Admit(PostFarm(State, body))

ReqPatchFarm ==
    \E id \in FarmRefs, body \in FarmPatches :
        Admit(PatchFarm(State, id, body))

ReqDeleteFarm ==
    \E id \in FarmRefs : Admit(DeleteFarm(State, id))

ReqOptimize ==
    /\ OptimizeRuns < MaxOptimize
    /\ \E preset \in Presets : Admit(Optimize(State, preset))

\* The fetch of some suspended createLog call settles, either way, and its
\* handler runs on; the sink fails MaxSinkFailures times at most.
SinkSettles ==
    \E p \in pending, outcome \in FetchOutcomes :
        /\ outcome = "rejected" => Cardinality(reported) < MaxSinkFailures
        /\ Becomes(Settle(State, p, outcome).st)

Next ==
    \/ ReqPostAccount
    \/ ReqPatchAccount
    \/ ReqDeleteAccount
    \/ ReqPostFarm
    \/ ReqPatchFarm
    \/ ReqDeleteFarm
    \/ ReqOptimize
    \/ SinkSettles

Spec == Init /\ [][Next]_vars

----------------------------------------------------------------------------
(* Log retention: optimize requests sent one after the other, each sent    *)
(* when the one before has been answered, until the log has gone past      *)
(* LogLimit entries, the sink taking every forward.  The preset of the     *)
(* n-th request is fixed by n, so that the n-th entry is known from its    *)
(* place.  The run may also start from the state it reaches Headroom       *)
(* requests before the log is full.                                        *)

PresetOfCall(n) ==
    IF n % 3 = 0 THEN "aggressive"
    ELSE IF n % 3 = 1 THEN "balanced" ELSE "conservative"

\* the entry the n-th of these requests appends
EntryOfCall(n) == NewLog(OptimizeLog(PresetOfCall(n)), n)

\* A server just started, or one that has answered LogLimit - Headroom of
\* these requests (the state the run from a fresh server passes through).
InitLog ==
    /\ accounts = <<>>
    /\ farms = <<>>
    /\ currentAccountId = 1
    /\ currentFarmId = 1
    /\ pending = {}
    /\ reported = {}
    /\ users = <<>>
    /\ currentUserId = 1
    /\ hashing = EmptyBag
    /\ call = NoCall
    /\ returned = NotReturned
    /\ \E n \in {0, LogLimit - Headroom} :
          /\ logs = [i \in 1..n |-> EntryOfCall(i)]
          /\ currentLogId = n + 1
          /\ currentStats = [id |-> 1, activeFarms |-> 0, pointsClaimed |-> 0,
                             watchHours |-> 0,
                             predictionRate |-> IF n = 0 THEN 0 ELSE RateCap]

ReqOptimizeInTurn ==
    /\ pending = {}
    /\ currentLogId <= LogLimit + ExtraAppends
    /\ Becomes(Optimize(State, PresetOfCall(currentLogId)).st)

\* The fetch of the suspended createLog call resolves and its handler runs on.
SinkDelivers ==
    \E p \in pending : Becomes(Settle(State, p, "resolved").st)

NextLog ==
    \/ ReqOptimizeInTurn
    \/ SinkDelivers

SpecLog == InitLog /\ [][NextLog]_vars

----------------------------------------------------------------------------
(* Requests in flight together: registrations and the account and farm      *)
(* lifecycle with several handlers suspended at once, resumed in any order. *)
(* The run starts from a fresh server, or from one whose log is Spare       *)
(* entries short of LogLimit (the state a fresh server is in when it has    *)
(* answered that many optimize requests), so that entries are evicted while *)
(* records are created and deleted.                                         *)

\* handlers suspended in createLog, and in bcrypt.hash, at the same time
MaxInFlight == 2
\* user, account and farm ids handed out in one run, taken together
MaxCreated == 3
\* entries short of LogLimit in the filled log this run may start from
Spare == 1

\* POST /api/auth/register bodies: two usernames, and a body with no password
RegisterBodies ==
    {[username |-> u, password |-> "hunter2"] : u \in {"ann", "bob"}}
    \cup {[username |-> "ann"]}

\* POST /api/farms bodies of this run
FarmBodiesInFlight ==
    {[accountId |-> a, channelName |-> "foo", features |-> DefaultFeatures]
        : a \in AccountRefs}

\* PATCH /api/farms/:id bodies of this run
FarmPatchesInFlight == {[status |-> "offline"]}

InitInFlight ==
    /\ users = <<>>
    /\ accounts = <<>>
    /\ farms = <<>>
    /\ currentUserId = 1
    /\ currentAccountId = 1
    /\ currentFarmId = 1
    /\ pending = {}
    /\ hashing = EmptyBag
    /\ reported = {}
    /\ call = NoCall
    /\ returned = NotReturned
    /\ \E n \in {0, LogLimit - Spare} :
          /\ logs = [i \in 1..n |-> EntryOfCall(i)]
          /\ currentLogId = n + 1
          /\ currentStats = [id |-> 1, activeFarms |-> 0, pointsClaimed |-> 0,
                             watchHours |-> 0,
                             predictionRate |-> IF n = 0 THEN 0 ELSE RateCap]

\* user, account and farm ids handed out or about to be
Created ==
    (currentUserId - 1) + BagCardinality(hashing)
    + (currentAccountId - 1) + (currentFarmId - 1)

\* A request is taken, within the bound on suspended handlers.
AdmitInFlight(r) ==
    /\ Cardinality(r.st.pending) <= MaxInFlight
    /\ BagCardinality(r.st.hashing) <= MaxInFlight
    /\ Becomes(r.st)

ReqRegister ==
    /\ Created < MaxCreated
    /\ \E body \in RegisterBodies : AdmitInFlight(Register(State, body))

\* The hash of some suspended registration is ready and its handler runs on.
HashSettles ==
    \E h \in BagToSet(hashing) : Becomes(Registered(State, h).st)

ReqPostAccountInFlight ==
    /\ Created < MaxCreated
    /\ \E body \in AccountBodies : AdmitInFlight(PostAccount(State, body))

ReqPostFarmInFlight ==
    /\ Created < MaxCreated
    /\ \E body \in FarmBodiesInFlight : AdmitInFlight(PostFarm(State, body))

ReqPatchFarmInFlight ==
    \E id \in FarmRefs, body \in FarmPatchesInFlight :
        AdmitInFlight(PatchFarm(State, id, body))

ReqDeleteFarmInFlight ==
    \E id \in FarmRefs : AdmitInFlight(DeleteFarm(State, id))

ReqDeleteAccountInFlight ==
    \E id \in AccountRefs : AdmitInFlight(DeleteAccount(State, id))

NextInFlight ==
    \/ ReqRegister
    \/ HashSettles
    \/ ReqPostAccountInFlight
    \/ ReqPostFarmInFlight
    \/ ReqPatchFarmInFlight
    \/ ReqDeleteFarmInFlight
    \/ ReqDeleteAccountInFlight
    \/ SinkDelivers

SpecInFlight == InitInFlight /\ [][NextInFlight]_vars

----------------------------------------------------------------------------
(* Optimize requests from a fresh server until predictionRate is at its    *)
(* cap.  The first EarlyRequests and the last LateRequests of them carry    *)
(* any preset and are in flight together; those in between, up to the      *)
(* WarmupRequests-th, are sent in turn with the aggressive preset.          *)

\* requests at the start of the run that carry any preset
EarlyRequests == 1
\* requests up to the last one sent in turn
WarmupRequests == 23
\* requests at the end of the run that carry any preset
LateRequests == 2

\* req.body.preset is not validated: the three presets and any other string
AnyPresets == Presets \cup {"turbo"}

\* the createLog ids, and so the requests, that are sent in turn
InTurn == (EarlyRequests + 1)..WarmupRequests

ReqOptimizeAny ==
    /\ currentLogId \notin InTurn
    /\ currentLogId <= WarmupRequests + LateRequests
    /\ \E preset \in AnyPresets : AdmitInFlight(Optimize(State, preset))

ReqOptimizeWarmup ==
    /\ currentLogId \in InTurn
    /\ pending = {}
    /\ Becomes(Optimize(State, "aggressive").st)

NextOptimize ==
    \/ ReqOptimizeAny
    \/ ReqOptimizeWarmup
    \/ SinkDelivers

SpecOptimize == Init /\ [][NextOptimize]_vars

----------------------------------------------------------------------------
(* JavaScript numbers.  A `number` is an IEEE 754 binary64 value and the    *)
(* operators /, * and + round their exact result to the nearest such value, *)
(* ties to the even significand.  The finite non-negative values are kept   *)
(* here exactly: an integer part and the bits after the binary point, which *)
(* together hold at most Precision significant bits.  The integer parts     *)
(* stay far below 2^Precision in every computation modelled.                *)

\* significand bits of a binary64 value
Precision == 53

\* A number a function returns: an integer, or NaN, the result of 0/0 and of
\* Infinity * 0 and of every operation on it.
Number(n) == [number |-> n]
NaN == [nan |-> TRUE]

Double(int, frac) == [int |-> int, frac |-> frac]
Zero == Double(0, <<>>)
Half == Double(0, <<1>>)

\* bits of the binary numeral of n (0 for n = 0); n < 2^31
BitLen(n) == Cardinality({k \in 0..30 : 2^k <= n})

\* bit i after the binary point, 0 past the end
Bit(bits, i) == IF i <= Len(bits) THEN bits[i] ELSE 0

\* zero bits before the first one bit
LeadingZeros(bits) ==
    Cardinality({i \in DOMAIN bits : \A j \in 1..i : bits[j] = 0})

\* one unit in the last place more
Increment(int, bits) ==
    LET zeros == {i \in DOMAIN bits : bits[i] = 0}
        last == IF zeros = {} THEN 0
                ELSE CHOOSE i \in zeros : \A j \in zeros : j <= i
    IN Double(IF last = 0 THEN int + 1 ELSE int,
              [i \in DOMAIN bits |->
                  IF i < last THEN bits[i] ELSE IF i = last THEN 1 ELSE 0])

\* The binary64 value nearest to int + 0.bits (+ something below the last
\* bit when `sticky`), ties to even.
RoundToDouble(int, bits, sticky) ==
    LET keep == IF int > 0 THEN Precision - BitLen(int)
                ELSE LeadingZeros(bits) + Precision
    IN IF Len(bits) <= keep THEN Double(int, bits)
       ELSE LET kept == SubSeq(bits, 1, keep)
                guard == bits[keep + 1]
                below == sticky \/ \E i \in (keep + 2)..Len(bits) : bits[i] = 1
                odd == IF keep = 0 THEN int % 2 = 1 ELSE kept[keep] = 1
            IN IF guard = 1 /\ (below \/ odd)
               THEN Increment(int, kept)
               ELSE Double(int, kept)

\* The bits after the binary point are worked on fifteen at a time, as
\* "limbs" below LimbBase, so that every product stays below 2^31.
LimbBase == 2^15

\* the bits of a sequence of limbs
ToBits(limbs) ==
    [k \in 1..(15 * Len(limbs)) |->
        (limbs[(k - 1) \div 15 + 1] \div 2^(14 - ((k - 1) % 15))) % 2]

\* the number five bits from bit k on spell, and the l-th limb of the bits
FiveBits(bits, k) ==
    16 * Bit(bits, k) + 8 * Bit(bits, k + 1) + 4 * Bit(bits, k + 2)
      + 2 * Bit(bits, k + 3) + Bit(bits, k + 4)
Limb(bits, l) ==
    1024 * FiveBits(bits, 15 * l - 14) + 32 * FiveBits(bits, 15 * l - 9)
      + FiveBits(bits, 15 * l - 4)

\* n / d for integers n >= 0 and 0 < d < LimbBase: the quotient's integer
\* part and, by long division, five limbs after the binary point (more
\* than Precision significant bits), rounded
Divide(n, d) ==
    LET r0 == n % d
        q1 == (r0 * LimbBase) \div d
        r1 == (r0 * LimbBase) % d
        q2 == (r1 * LimbBase) \div d
        r2 == (r1 * LimbBase) % d
        q3 == (r2 * LimbBase) \div d
        r3 == (r2 * LimbBase) % d
        q4 == (r3 * LimbBase) \div d
        r4 == (r3 * LimbBase) % d
        q5 == (r4 * LimbBase) \div d
        r5 == (r4 * LimbBase) % d
    IN RoundToDouble(n \div d, ToBits(<<q1, q2, q3, q4, q5>>), r5 # 0)

\* x * b for an integer 0 <= b < LimbBase and x.frac of at most five limbs:
\* limb by limb from the last, each carrying into the one before, rounded
Times(x, b) ==
    LET p5 == Limb(x.frac, 5) * b
        p4 == Limb(x.frac, 4) * b + p5 \div LimbBase
        p3 == Limb(x.frac, 3) * b + p4 \div LimbBase
        p2 == Limb(x.frac, 2) * b + p3 \div LimbBase
        p1 == Limb(x.frac, 1) * b + p2 \div LimbBase
    IN RoundToDouble(x.int * b + p1 \div LimbBase,
                     ToBits(<<p1 % LimbBase, p2 % LimbBase, p3 % LimbBase,
                              p4 % LimbBase, p5 % LimbBase>>),
                     FALSE)

\* x + b for an integer b >= 0
Plus(x, b) == RoundToDouble(x.int + b, x.frac, FALSE)

\* Math.floor(x)
Floor(x) == x.int

\* 0.a < 0.b
FracLess(a, b) ==
    \E i \in (DOMAIN a) \cup (DOMAIN b) :
        /\ Bit(a, i) < Bit(b, i)
        /\ \A j \in 1..(i - 1) : Bit(a, j) = Bit(b, j)

\* x < y
Less(x, y) == x.int < y.int \/ (x.int = y.int /\ FracLess(x.frac, y.frac))

----------------------------------------------------------------------------
(* twitch-helpers: the betting decision and the payout estimate. *)

\* the `null` a decision returns for "place no bet"
null == "null"

\* outcomes.reduce((sum, o) => sum + o.totalPoints, 0)
RECURSIVE totalPoints(_)
totalPoints(outcomes) ==
    IF outcomes = <<>> THEN 0
    ELSE totalPoints(SubSeq(outcomes, 1, Len(outcomes) - 1))
           + outcomes[Len(outcomes)].totalPoints

\* outcomes.reduce((prev, current) =>
\*     (prev.totalUsers > current.totalUsers) ? prev : current)
RECURSIVE mostUsers(_)
mostUsers(outcomes) ==
    IF Len(outcomes) = 1 THEN outcomes[1]
    ELSE LET prev == mostUsers(SubSeq(outcomes, 1, Len(outcomes) - 1))
             current == outcomes[Len(outcomes)]
         IN IF prev.totalUsers > current.totalUsers THEN prev ELSE current

\* outcomes.reduce((prev, current) =>
\*     (prev.totalPoints < current.totalPoints) ? prev : current)
RECURSIVE bestReturn(_)
bestReturn(outcomes) ==
    IF Len(outcomes) = 1 THEN outcomes[1]
    ELSE LET prev == bestReturn(SubSeq(outcomes, 1, Len(outcomes) - 1))
             current == outcomes[Len(outcomes)]
         IN IF prev.totalPoints < current.totalPoints THEN prev ELSE current

\* outcomes.map(outcome => ({ id, odds: totalPoints > 0 ? share : 0 }))
oddsWithId(outcomes) ==
    LET total == totalPoints(outcomes)
    IN [i \in DOMAIN outcomes |->
          [id |-> outcomes[i].id,
           odds |-> IF total > 0 THEN Divide(outcomes[i].totalPoints, total)
                    ELSE Zero]]

\* a step of the sort that puts e before the entries of equal odds as well
RECURSIVE InsertByOddsBeforeEquals(_, _)
InsertByOddsBeforeEquals(sorted, e) ==
    IF sorted = <<>> THEN <<e>>
    ELSE IF ~Less(Head(sorted).odds, e.odds) THEN <<e>> \o sorted
    ELSE <<Head(sorted)>> \o InsertByOddsBeforeEquals(Tail(sorted), e)

\* One step of the sort: e goes before the first entry the comparator
\* `(a, b) => a.odds - b.odds` puts it before, and after every other one.
RECURSIVE InsertByOdds(_, _)
InsertByOdds(sorted, e) ==
    IF sorted = <<>> THEN <<e>>
    ELSE IF Less(e.odds, Head(sorted).odds) THEN <<e>> \o sorted
    ELSE <<Head(sorted)>> \o InsertByOdds(Tail(sorted), e)

\* a sort by odds with the comparator turned round: largest odds first
RECURSIVE sortByOddsDescending(_)
sortByOddsDescending(list) ==
    IF list = <<>> THEN <<>>
    ELSE LET top == CHOOSE i \in DOMAIN list :
                        /\ \A j \in DOMAIN list : ~Less(list[i].odds, list[j].odds)
                        /\ \A j \in 1..(i - 1) : Less(list[j].odds, list[i].odds)
         IN <<list[top]>>
              \o sortByOddsDescending(SubSeq(list, 1, top - 1)
                                        \o SubSeq(list, top + 1, Len(list)))

\* list.sort((a, b) => a.odds - b.odds): ascending, and stable (entries of
\* equal odds keep their order), as Array.prototype.sort is since ES2019
RECURSIVE sortByOdds(_)
sortByOdds(list) ==
    IF list = <<>> THEN <<>>
    ELSE InsertByOdds(sortByOdds(SubSeq(list, 1, Len(list) - 1)),
                      list[Len(list)])

\* the favorable-odds gate asking for odds of at least 0.5 to withhold
unfavorableFromHalf(favorableOddsOnly, lowest) ==
    favorableOddsOnly /\ ~Less(lowest.odds, Half)

\* `favorableOddsOnly && oddsWithId[0].odds > 0.5`
unfavorable(favorableOddsOnly, lowest) ==
    favorableOddsOnly /\ Less(Half, lowest.odds)

\* determineBestPredictionOutcome with no case for the custom strategy
determineBestWithoutCustom(prediction, strategy, favorableOddsOnly, random) ==
    IF Len(prediction.outcomes) = 0 THEN null
    ELSE CASE strategy = "random" -> prediction.outcomes[random + 1].id
           [] strategy = "majority" -> mostUsers(prediction.outcomes).id
           [] strategy = "percentage" ->
                LET sorted == sortByOdds(oddsWithId(prediction.outcomes))
                IN IF unfavorable(favorableOddsOnly, sorted[1]) THEN null
                   ELSE sorted[1].id
           [] OTHER -> null

\* determineBestPredictionOutcome; `random` is the index
\* Math.floor(Math.random() * outcomes.length) of this call
determineBestPredictionOutcome(prediction, strategy, favorableOddsOnly, random) ==
    IF Len(prediction.outcomes) = 0 THEN null
    ELSE CASE strategy = "random" -> prediction.outcomes[random + 1].id
           [] strategy = "majority" -> mostUsers(prediction.outcomes).id
           [] strategy = "percentage" ->
                LET sorted == sortByOdds(oddsWithId(prediction.outcomes))
                IN IF unfavorable(favorableOddsOnly, sorted[1]) THEN null
                   ELSE sorted[1].id
           [] strategy = "custom" -> bestReturn(prediction.outcomes).id
           [] OTHER -> null

\* outcomes.find(o => o.id === outcomeId): the index of the first match, 0
\* for none
find(outcomes, outcomeId) ==
    LET hits == {i \in DOMAIN outcomes : outcomes[i].id = outcomeId}
    IN IF hits = {} THEN 0 ELSE CHOOSE i \in hits : \A j \in hits : i <= j

\* calculatePotentialWinnings.  With outcome.totalPoints + betAmount = 0 the
\* quotient is Infinity or NaN, its product with betAmount = 0 is NaN, and
\* so is all that follows.
calculatePotentialWinnings(prediction, outcomeId, betAmount) ==
    LET found == find(prediction.outcomes, outcomeId)
        outcome == prediction.outcomes[found]
        otherPoints == totalPoints(prediction.outcomes) - outcome.totalPoints
        potentialReturn == Times(Divide(otherPoints,
                                        outcome.totalPoints + betAmount),
                                 betAmount)
    IN IF found = 0 THEN Number(0)
       ELSE IF outcome.totalPoints + betAmount = 0 THEN NaN
       ELSE Number(Floor(Plus(potentialReturn, betAmount)))

----------------------------------------------------------------------------
(* The helpers called on their own: a call is set up with its arguments and *)
(* then returns.                                                            *)

\* outcome ids, by place in the list
OutcomeIds == <<"A", "B", "C", "D">>
Strategies == {"random", "majority", "percentage", "custom", "other"}
\* pools and stakes for the payout estimate
PayoutPools == {0, 49, 2000, 8000}
BetAmounts == {0, 11, 1000}
PayoutIds == {"A", "B", "Z"}
MaxPayoutOutcomes == 2

\* the predictions of n outcomes with pools in `pools` and users in `backers`
PredictionsOf(n, pools, backers) ==
    {[outcomes |-> [i \in 1..n |-> [id |-> OutcomeIds[i],
                                    totalPoints |-> f[i].totalPoints,
                                    totalUsers |-> f[i].totalUsers]]] :
        f \in [1..n -> [totalPoints : pools, totalUsers : backers]]}

\* the calls of the decision with a prediction of n outcomes
DecisionCalls(n) ==
    [fn : {"determineBestPredictionOutcome"},
     prediction : PredictionsOf(n, 0..MaxPoints, 0..MaxUsers),
     strategy : Strategies,
     favorableOddsOnly : BOOLEAN]

\* the calls of the payout estimate with a prediction of n outcomes
PayoutCalls(n) ==
    [fn : {"calculatePotentialWinnings"},
     prediction : PredictionsOf(n, PayoutPools, {0}),
     outcomeId : PayoutIds,
     betAmount : BetAmounts]

\* the values Math.floor(Math.random() * outcomes.length) can take in a call
RandomIndexes(c) ==
    IF c.strategy = "random" /\ Len(c.prediction.outcomes) > 0
    THEN 0..(Len(c.prediction.outcomes) - 1)
    ELSE {0}

InitHelpers ==
    /\ accounts = <<>>
    /\ farms = <<>>
    /\ logs = <<>>
    /\ currentStats = [id |-> 1, activeFarms |-> 0, pointsClaimed |-> 0,
                       watchHours |-> 0, predictionRate |-> 0]
    /\ currentAccountId = 1
    /\ currentFarmId = 1
    /\ currentLogId = 1
    /\ pending = {}
    /\ reported = {}
    /\ users = <<>>
    /\ currentUserId = 1
    /\ hashing = EmptyBag
    /\ call \in UNION {DecisionCalls(n) : n \in 0..MaxOutcomes}
                \cup UNION {PayoutCalls(n) : n \in 0..MaxPayoutOutcomes}
    /\ returned = NotReturned

Decides ==
    /\ call.fn = "determineBestPredictionOutcome"
    /\ returned = NotReturned
    /\ \E random \in RandomIndexes(call) :
          returned' = Returned(determineBestPredictionOutcome(
                                   call.prediction, call.strategy,
                                   call.favorableOddsOnly, random))
    /\ UNCHANGED <<users, accounts, farms, logs, currentStats, currentUserId,
                   currentAccountId, currentFarmId, currentLogId, pending,
                   hashing, reported, call>>

Estimates ==
    /\ call.fn = "calculatePotentialWinnings"
    /\ returned = NotReturned
    /\ returned' = Returned(calculatePotentialWinnings(
                              call.prediction, call.outcomeId, call.betAmount))
    /\ UNCHANGED <<users, accounts, farms, logs, currentStats, currentUserId,
                   currentAccountId, currentFarmId, currentLogId, pending,
                   hashing, reported, call>>

NextHelpers ==
    \/ Decides
    \/ Estimates

SpecHelpers == InitHelpers /\ [][NextHelpers]_vars

----------------------------------------------------------------------------
(* Properties.  A property of an operation is stated of the operation      *)
(* applied to every reachable state and every input: the state and the     *)
(* response the handler yields there.                                      *)

\* the log entries of a state: those retained and those whose createLog call
\* is still waiting for the sink
Entries(st) == {st.logs[i] : i \in DOMAIN st.logs} \cup {p.log : p \in st.pending}

IsStart(log) == log.status = "success" /\ log.accountName # "System"
IsStop(log) == log.status = "info"
IsSystem(log) == log.accountName = "System"

\* the farms stored for an account
FarmsOf(fs, a) == {k \in DOMAIN fs : fs[k].accountId = a}

ValidFarmBody(body) == InsertFarmFields \subseteq DOMAIN body

\* C1: in every reachable state Stat.activeFarms equals the number of Farm
\* records in the store.
C1_ActiveFarmsIsFarmCount ==
    currentStats.activeFarms = Cardinality(DOMAIN farms)

\* C1 witness: two farms were created, one of them is gone again, and an
\* optimize request has written the stats through updateStats.
C1_Witness ==
    /\ currentFarmId = 3
    /\ Cardinality(DOMAIN farms) = 1
    /\ currentStats.predictionRate > 0

\* C2 (as claimed): every Farm in the store has an accountId that is the id
\* of an Account in the store.
C2_EveryFarmHasLiveAccount ==
    \A k \in DOMAIN farms : Has(accounts, farms[k].accountId)

\* C3 (as claimed): after deleteAccount(a) no Farm with accountId a is left
\* and Account a is absent, in whatever state it is called.
C3_DeleteAccountLeavesNoFarm ==
    \A a \in AccountRefs :
        LET after == DeleteAccount(State, a).st
        IN /\ ~Has(after.accounts, a)
           /\ FarmsOf(after.farms, a) = {}

\* C4: after N createLog calls made one after the other the log holds
\* min(N, 1000) entries, which are the last min(N, 1000) appended, oldest
\* first; the log is never longer than 1000.
C4_LogKeepsNewest ==
    /\ Len(logs) <= LogLimit
    /\ pending = {} =>
          LET N == currentLogId - 1
              kept == Min(N, LogLimit)
          IN /\ Len(logs) = kept
             /\ \A i \in 1..kept : logs[i] = EntryOfCall(N - kept + i)

\* C4 witness: more than 1000 entries were appended and the oldest evicted.
C4_Witness ==
    /\ pending = {}
    /\ currentLogId - 1 > LogLimit + 1
    /\ Len(logs) = LogLimit
    /\ logs[1].id = currentLogId - LogLimit

\* C5 (as claimed): deleteAccount(a) on an account owning k farms lowers
\* activeFarms by k and adds k stop Log entries.
C5_CascadeLogsEachStop ==
    \A a \in AccountRefs :
        LET k == Cardinality(FarmsOf(farms, a))
            after == DeleteAccount(State, a).st
            stops(st) == Cardinality({e \in Entries(st) : IsStop(e)})
        IN /\ after.stats.activeFarms = currentStats.activeFarms - k
           /\ stops(after) = stops(State) + k

\* the text the start entry carries for a features object of FeatureSets
ExpectedDetails(features) ==
    IF features.predictions
    THEN "Enabled features: claimPoints, predictions"
    ELSE "Enabled features: claimPoints"

\* C6: a successful createFarm adds exactly one Farm with status active,
\* uptime 0, pointsClaimed 0, watchTime 0 and enabled true whatever the body
\* carried, raises activeFarms by exactly 1, and writes exactly one Log entry
\* that describes the start and lists the enabled features.
C6_CreateFarmEffect ==
    \A body \in FarmBodies :
        (ValidFarmBody(body) /\ Has(accounts, body.accountId)) =>
            LET r == PostFarm(State, body)
                new == DOMAIN r.st.farms \ DOMAIN farms
                waits == r.st.pending \ pending
            IN /\ r.status = 0
               /\ Cardinality(new) = 1
               /\ \A k \in DOMAIN farms : r.st.farms[k] = farms[k]
               /\ \A n \in new :
                     LET f == r.st.farms[n]
                     IN /\ f.status = "active"
                        /\ f.uptime = 0
                        /\ f.pointsClaimed = 0
                        /\ f.watchTime = 0
                        /\ f.enabled = TRUE
                        /\ f.accountId = body.accountId
                        /\ f.channelName = body.channelName
                        /\ f.features = body.features
               /\ r.st.stats.activeFarms = currentStats.activeFarms + 1
               /\ r.st.logs = logs
               /\ Cardinality(waits) = 1
               /\ \A p \in waits :
                     LET done == Resume(r.st, p)
                     IN /\ p.log.event = "Started farming channel " \o body.channelName
                        /\ p.log.details = ExpectedDetails(body.features)
                        /\ p.log.accountId = body.accountId
                        /\ done.status = 201
                        /\ done.st.logs = Append(logs, p.log)
                        /\ done.st.farms = r.st.farms
                        /\ done.st.stats = r.st.stats

\* C6 witness: a farm has been created, its start entry is in the log and
\* activeFarms is 1.
C6_Witness ==
    /\ currentStats.activeFarms = 1
    /\ \E k \in DOMAIN farms : farms[k].status = "active" /\ farms[k].id = k
    /\ \E i \in DOMAIN logs : IsStart(logs[i])

\* C7: createFarm for an accountId with no Account is answered 400 "Account
\* not found" and changes nothing: no farm, no farm id taken, no log entry,
\* activeFarms as before.
C7_CreateFarmUnknownAccount ==
    \A body \in FarmBodies :
        (ValidFarmBody(body) /\ ~Has(accounts, body.accountId)) =>
            PostFarm(State, body) = Reply(State, 400, "Account not found")

\* C7 witness: farms exist and a request names an account that was deleted.
C7_Witness ==
    /\ DOMAIN farms # {}
    /\ \E body \in FarmBodies :
          /\ ValidFarmBody(body)
          /\ ~Has(accounts, body.accountId)
          /\ body.accountId < currentAccountId

\* C8 (as claimed): every successful deleteFarm(id) lowers activeFarms by 1
\* and writes exactly one stop Log entry with the channelName and accountId
\* the farm had, whatever the state of the farm's account.
C8_DeleteFarmLogsStop ==
    \A id \in DOMAIN farms :
        LET r == DeleteFarm(State, id)
            waits == r.st.pending \ pending
        IN /\ r.status \in {0, 200}
           /\ ~Has(r.st.farms, id)
           /\ r.st.stats.activeFarms = currentStats.activeFarms - 1
           /\ Cardinality(waits) = 1
           /\ \A p \in waits :
                 /\ IsStop(p.log)
                 /\ p.log.channelName = farms[id].channelName
                 /\ p.log.accountId = farms[id].accountId
                 /\ Resume(r.st, p).st.logs = Append(logs, p.log)

\* C9: deleteFarm(id) for an id with no Farm is answered 404 and changes
\* nothing, in the route and in the store method alike.
C9_DeleteMissingFarm ==
    \A id \in FarmRefs :
        ~Has(farms, id) =>
            /\ DeleteFarm(State, id) = Reply(State, 404, "Farm not found")
            /\ deleteFarm([farms |-> farms, stats |-> currentStats], id)
                 = [farms |-> farms, stats |-> currentStats, result |-> FALSE]

\* C9 witness: a farm that was created is gone while another is stored.
C9_Witness ==
    /\ DOMAIN farms # {}
    /\ \E id \in FarmRefs : id < currentFarmId /\ ~Has(farms, id)

\* C10: updateFarm never writes a Log entry and never changes activeFarms,
\* for any id and patch; every log id ever taken belongs to a farm's start
\* entry, a farm's stop entry or an optimize entry.
C10_UpdateFarmIsSilent ==
    /\ \A id \in FarmRefs, body \in FarmPatches :
          LET r == PatchFarm(State, id, body)
          IN /\ r.st.logs = logs
             /\ r.st.pending = pending
             /\ r.st.logId = currentLogId
             /\ r.st.stats = currentStats
             /\ r.status \in {200, 404}
    /\ \A e \in Entries(State) : IsStart(e) \/ IsStop(e) \/ IsSystem(e)
    /\ Cardinality(Entries(State)) = currentLogId - 1
    /\ Cardinality({e \in Entries(State) : IsStart(e)}) = currentFarmId - 1
    /\ Cardinality({e \in Entries(State) : IsStop(e)})
          <= (currentFarmId - 1) - Cardinality(DOMAIN farms)

\* C10 witness: a stored farm has been patched and the log still holds the
\* one entry of its creation.
C10_Witness ==
    /\ Len(logs) = 1
    /\ pending = {}
    /\ currentLogId = 2
    /\ \E k \in DOMAIN farms : farms[k].status = "offline"

\* A record after a patch: the patch's fields hold the patch's values and
\* every other field holds what it held.
PatchedExactly(old, new, patch) ==
    /\ DOMAIN new = (DOMAIN old) \cup (DOMAIN patch)
    /\ \A f \in DOMAIN patch : new[f] = patch[f]
    /\ \A f \in (DOMAIN old) \ (DOMAIN patch) : new[f] = old[f]

\* A map after an update of the record under `id`: the same keys, and every
\* other record as it was.
OthersUntouched(old, new, id) ==
    /\ DOMAIN new = DOMAIN old
    /\ \A k \in (DOMAIN old) \ {id} : new[k] = old[k]

\* C11: an update of an existing Farm or Account changes exactly the fields
\* the patch names and no other field of that record (a Farm's status stays
\* whatever it was under a patch that does not name status), and changes no
\* other record of either kind.
C11_UpdateChangesOnlyPatchedFields ==
    /\ \A id \in DOMAIN farms, body \in FarmPatches :
          LET r == PatchFarm(State, id, body)
          IN /\ r.status = 200
             /\ r.st.farms = updateFarm(farms, id, body)
             /\ PatchedExactly(farms[id], r.st.farms[id], body)
             /\ ("status" \notin DOMAIN body
                    => r.st.farms[id].status = farms[id].status)
             /\ OthersUntouched(farms, r.st.farms, id)
             /\ r.st.accounts = accounts
    /\ \A id \in DOMAIN accounts, body \in AccountPatches :
          LET r == PatchAccount(State, id, body)
          IN /\ r.status = 200
             /\ r.st.accounts = updateAccount(accounts, id, body)
             /\ PatchedExactly(accounts[id], r.st.accounts[id], body)
             /\ OthersUntouched(accounts, r.st.accounts, id)
             /\ r.st.farms = farms

\* C11 witness: a farm whose status was set by a patch has also taken a patch
\* that does not name status, next to a farm no patch has touched.
C11_Witness ==
    \E k, j \in DOMAIN farms :
        /\ k # j
        /\ farms[k].status = "offline"
        /\ farms[k].id # k
        /\ farms[j] = NewFarm(Pick(farms[j], InsertFarmFields), j)

\* C19: a forward that fails makes createLog neither raise nor forward
\* again.  The waiting handler answers success, nothing of the entry is left
\* in flight, no id is taken, and the entry is the last of the log with the
\* id it was given when createLog was called; the server is left as a
\* delivered forward leaves it, but for the report.  Every entry whose
\* forward failed is in the log, and none is being forwarded.
C19_SinkFailureIsAbsorbed ==
    /\ \A p \in pending :
          LET r == Settle(State, p, "rejected")
          IN /\ r.status \in {200, 201}
             /\ r.st.pending = pending \ {p}
             /\ r.st.logId = currentLogId
             /\ r.st.logs = Append(logs, p.log)
             /\ p.log.id < currentLogId
             /\ r.st.reported = reported \cup {p.log.id}
             /\ [r.st EXCEPT !.reported = reported]
                  = Settle(State, p, "resolved").st
    /\ \A id \in reported : \E i \in DOMAIN logs : logs[i].id = id
    /\ \A p \in pending : p.log.id \notin reported

\* C19 witness: the forward of an entry has failed and the entry is in the
\* log, while another handler waits for the sink.
C19_Witness ==
    /\ reported # {}
    /\ \A id \in reported : \E i \in DOMAIN logs : logs[i].id = id
    /\ pending # {}

\* C20: an entry is in the log sequence before it is forwarded: while a
\* createLog call waits for the sink its entry is already in the log, and so
\* is visible whether or not the sink ever answers.
C20_AppendedBeforeForwarded ==
    \A p \in pending : \E i \in DOMAIN logs : logs[i] = p.log

----------------------------------------------------------------------------
(* Properties of the helpers, stated of a call that has returned.  Shares   *)
(* of the pool are compared here as exact fractions, by cross-multiplying.  *)

DecisionReturned ==
    call.fn = "determineBestPredictionOutcome" /\ returned.done
PayoutReturned ==
    call.fn = "calculatePotentialWinnings" /\ returned.done

\* the least index of a non-empty set of indexes
First(S) == CHOOSE i \in S : \A j \in S : i <= j

\* the places of the outcomes with the most users / the smallest pool
LargestUsers(outcomes) ==
    {i \in DOMAIN outcomes :
        \A j \in DOMAIN outcomes : outcomes[j].totalUsers <= outcomes[i].totalUsers}
SmallestPool(outcomes) ==
    {i \in DOMAIN outcomes :
        \A j \in DOMAIN outcomes : outcomes[i].totalPoints <= outcomes[j].totalPoints}

\* share_i <= share_j and share_i > 1/2, where share_i is
\* totalPoints_i / total, and 0 when the total is 0
ShareAtMost(outcomes, i, j) ==
    LET total == totalPoints(outcomes)
    IN total = 0
       \/ outcomes[i].totalPoints * total <= outcomes[j].totalPoints * total
ShareAboveHalf(outcomes, i) ==
    LET total == totalPoints(outcomes)
    IN total > 0 /\ 2 * outcomes[i].totalPoints > total
SmallestShare(outcomes) ==
    {i \in DOMAIN outcomes :
        \A j \in DOMAIN outcomes : ShareAtMost(outcomes, i, j)}

\* C12: under majority the decision is the first outcome, in list order,
\* among those with the largest totalUsers, whatever the order of the list.
C12_MajorityPicksFirstLargest ==
    (DecisionReturned /\ call.strategy = "majority"
        /\ Len(call.prediction.outcomes) > 0) =>
        LET outcomes == call.prediction.outcomes
        IN returned.value = outcomes[First(LargestUsers(outcomes))].id

\* C13: under percentage, for a non-empty list, the decision is the first
\* outcome among those of the smallest share, except that it is null exactly
\* when favorableOddsOnly is set and that share is above one half.
C13_PercentagePicksFirstSmallestShare ==
    (DecisionReturned /\ call.strategy = "percentage"
        /\ Len(call.prediction.outcomes) > 0) =>
        LET outcomes == call.prediction.outcomes
            lowest == First(SmallestShare(outcomes))
        IN returned.value =
              IF call.favorableOddsOnly /\ ShareAboveHalf(outcomes, lowest)
              THEN null
              ELSE outcomes[lowest].id

\* C13 witness: two later outcomes tie for the smallest share and the first
\* of the two was returned.
C13_Witness ==
    /\ DecisionReturned
    /\ call.strategy = "percentage"
    /\ Len(call.prediction.outcomes) = 3
    /\ call.prediction.outcomes[1].totalPoints = 2
    /\ call.prediction.outcomes[2].totalPoints = 1
    /\ call.prediction.outcomes[3].totalPoints = 1
    /\ returned.value = "B"

\* C14: under custom the decision is the first outcome, in list order, among
\* those with the smallest totalPoints.
C14_CustomPicksFirstSmallestPool ==
    (DecisionReturned /\ call.strategy = "custom"
        /\ Len(call.prediction.outcomes) > 0) =>
        LET outcomes == call.prediction.outcomes
        IN returned.value = outcomes[First(SmallestPool(outcomes))].id

\* the outcome ids of a prediction
IdsOf(outcomes) == {outcomes[i].id : i \in DOMAIN outcomes}

\* the pool of the first outcome with the id, and the pools of all the others
OwnPoints(outcomes, outcomeId) ==
    outcomes[First({i \in DOMAIN outcomes : outcomes[i].id = outcomeId})].totalPoints
OtherPoints(outcomes, outcomeId) ==
    totalPoints(outcomes) - OwnPoints(outcomes, outcomeId)

\* C15: a stake of 0 on an outcome of the prediction is estimated to pay 0,
\* whatever the pools, the outcome's own pool being 0 included.
C15_ZeroBetPaysZero ==
    (PayoutReturned /\ call.betAmount = 0
        /\ call.outcomeId \in IdsOf(call.prediction.outcomes)) =>
        returned.value = Number(0)

\* C16: a positive stake is estimated to pay 0 on an outcome that is not in
\* the prediction, and otherwise the stake plus the whole part of
\* otherPoints * stake / (own pool + stake).
C16_PayoutIsStakePlusShare ==
    (PayoutReturned /\ call.betAmount > 0) =>
        LET outcomes == call.prediction.outcomes
            own == OwnPoints(outcomes, call.outcomeId)
            other == OtherPoints(outcomes, call.outcomeId)
        IN returned.value =
              IF call.outcomeId \notin IdsOf(outcomes) THEN Number(0)
              ELSE Number(call.betAmount
                            + (other * call.betAmount) \div (own + call.betAmount))

\* C17 as claimed: among the predictions the decision is called with, one of
\* three or more outcomes has a smallest share above one half, and percentage
\* with favorableOddsOnly is null for it.
C17_SomeThreeWayPredictionIsWithheld ==
    call.fn = "determineBestPredictionOutcome" =>
        \E n \in 0..MaxOutcomes : \E c \in DecisionCalls(n) :
            LET outcomes == c.prediction.outcomes
            IN /\ Len(outcomes) >= 3
               /\ ShareAboveHalf(outcomes, First(SmallestShare(outcomes)))
               /\ determineBestPredictionOutcome(c.prediction, "percentage",
                                                 TRUE, 0) = null

\* C17, amended: in a prediction of two or more outcomes the smallest share
\* is at most one half, so percentage with favorableOddsOnly is never null
\* for a prediction of three or more outcomes: it is the first outcome of
\* the smallest share.
C17_ThreeWayPredictionIsNeverWithheld ==
    (DecisionReturned /\ call.strategy = "percentage" /\ call.favorableOddsOnly
        /\ Len(call.prediction.outcomes) >= 2) =>
        LET outcomes == call.prediction.outcomes
            lowest == First(SmallestShare(outcomes))
        IN /\ ~ShareAboveHalf(outcomes, lowest)
           /\ returned.value # null
           /\ returned.value = outcomes[lowest].id

\* C17 witness: favorableOddsOnly is set, one of three outcomes holds the
\* whole pool, and an outcome with none of it was returned.
C17_Witness ==
    /\ DecisionReturned
    /\ call.strategy = "percentage"
    /\ call.favorableOddsOnly
    /\ Len(call.prediction.outcomes) = 3
    /\ call.prediction.outcomes[1].totalPoints = 2
    /\ call.prediction.outcomes[2].totalPoints = 0
    /\ call.prediction.outcomes[3].totalPoints = 0
    /\ returned.value = "B"

\* C18: for an empty outcome list the decision is null under every strategy
\* and both values of favorableOddsOnly; for a non-empty list under random,
\* majority or custom it is the id of an outcome of the list.
C18_EmptyIsNullElseAnOutcome ==
    DecisionReturned =>
        LET outcomes == call.prediction.outcomes
        IN /\ Len(outcomes) = 0 => returned.value = null
           /\ (Len(outcomes) > 0
                  /\ call.strategy \in {"random", "majority", "custom"})
                 => returned.value \in IdsOf(outcomes)

\* C18 witness: custom returned an outcome of a list of three (and the empty
\* list is among the calls made).
C18_Witness ==
    /\ DecisionReturned
    /\ call.strategy = "custom"
    /\ Len(call.prediction.outcomes) = 3
    /\ returned.value = "C"

----------------------------------------------------------------------------
(* Properties of the store's reads, ids and log, and of requests in flight. *)

\* the n most recently appended of the retained entries, newest first
NewestFirst(ls, n) == [i \in 1..Min(n, Len(ls)) |-> ls[Len(ls) + 1 - i]]

\* limits a GET /api/logs request may carry
Limits == 0..(Len(logs) + 1)

\* C21: for every limit >= 0, getLogs(limit) returns exactly the
\* min(limit, retained count) most recently appended entries, newest first;
\* getLogs(0) returns no entries.
C21_GetLogsReturnsNewestLimit ==
    \A limit \in Limits : getLogs(logs, limit) = NewestFirst(logs, limit)

\* the log entries that have an id: the retained ones and those of the
\* createLog calls waiting for the sink
LogIdsHeld == {logs[i].id : i \in DOMAIN logs} \cup {p.log.id : p \in pending}

\* a step hands out the counter's value, to a record stored under it, and
\* moves the counter on by one; or it creates no record and leaves the counter
AssignsNext(old, new, counter, counterAfter) ==
    \/ /\ counterAfter = counter
       /\ (DOMAIN new) \ (DOMAIN old) = {}
    \/ /\ counterAfter = counter + 1
       /\ (DOMAIN new) \ (DOMAIN old) = {counter}
       /\ new[counter].id = counter

\* the same for createLog, which takes the id when it is called
LogAssignsNext ==
    \/ /\ currentLogId' = currentLogId
       /\ pending' \subseteq pending
    \/ /\ currentLogId' = currentLogId + 1
       /\ {p.log.id : p \in pending' \ pending} = {currentLogId}

\* C22: for each kind (Account, Farm, Log, User) create assigns the ids
\* 1, 2, 3, ... in call order: every id handed out so far is below the
\* kind's counter, which starts at 1 on a new store, and each create hands
\* out the counter's value and moves it on by one, so that no id is assigned
\* twice, also when the record that held it has been deleted or evicted.
C22_IdsAreSequentialAndNeverReused ==
    /\ (logs = <<>> => /\ currentUserId = 1 /\ currentAccountId = 1
                       /\ currentFarmId = 1 /\ currentLogId = 1)
    /\ [](/\ \A k \in DOMAIN users : k < currentUserId
          /\ \A k \in DOMAIN accounts : k < currentAccountId
          /\ \A k \in DOMAIN farms : k < currentFarmId
          /\ \A k \in LogIdsHeld : k < currentLogId)
    /\ [][/\ AssignsNext(users, users', currentUserId, currentUserId')
          /\ AssignsNext(accounts, accounts', currentAccountId, currentAccountId')
          /\ AssignsNext(farms, farms', currentFarmId, currentFarmId')
          /\ LogAssignsNext]_vars

\* C22 witness: farm 2 was created after farm 1 had been deleted (the last
\* two entries are a stop and then a start with a later id), and entry 1 has
\* been evicted from a full log
C22_Witness ==
    /\ DOMAIN farms = {2}
    /\ Len(logs) = LogLimit
    /\ logs[1].id > 1
    /\ logs[Len(logs) - 1].details = "Farm deleted by user"
    /\ logs[Len(logs)].status = "success"
    /\ logs[Len(logs)].id > logs[Len(logs) - 1].id

\* the store state deleteAccount and deleteFarm work on
Store == [accounts |-> accounts, farms |-> farms, stats |-> currentStats]

\* C23: get, update and delete called with an id that has no record return
\* the not-found value (undefined, undefined, false) and leave the whole
\* store state unchanged, activeFarms included (no method here touches an id
\* counter); delete returns true exactly when a record with that id existed.
C23_MissingIdChangesNothing ==
    /\ \A id \in AccountRefs :
          LET r == deleteAccount(Store, id)
          IN /\ r.result = Has(accounts, id)
             /\ ~Has(accounts, id) =>
                   /\ getAccount(accounts, id) = undefined
                   /\ \A patch \in AccountPatches :
                         updateAccount(accounts, id, patch) = accounts
                   /\ r.accounts = accounts
                   /\ r.farms = farms
                   /\ r.stats = currentStats
    /\ \A id \in FarmRefs :
          LET r == deleteFarm([farms |-> farms, stats |-> currentStats], id)
          IN /\ r.result = Has(farms, id)
             /\ ~Has(farms, id) =>
                   /\ getFarm(farms, id) = undefined
                   /\ \A patch \in FarmPatches :
                         updateFarm(farms, id, patch) = farms
                   /\ r.farms = farms
                   /\ r.stats = currentStats

\* a step leaves the log alone, or appends one entry to it: the entries kept
\* are the old ones, unchanged and in their order, and old entries are
\* dropped, from the front, only to bring a log longer than LogLimit back to
\* LogLimit
AppendsOrLeaves(old, new) ==
    \/ new = old
    \/ LET dropped == Len(old) + 1 - Len(new)
       IN /\ Len(new) >= 1
          /\ dropped >= 0
          /\ dropped > 0 => (Len(old) + 1 > LogLimit /\ Len(new) = LogLimit)
          /\ \A i \in 1..(Len(new) - 1) : new[i] = old[i + dropped]

\* C24: log entries are append-only: an entry in the log sequence never
\* changes, and leaves it only by eviction of the oldest entries when the
\* length exceeds LogLimit; deleting or patching farms or accounts never
\* removes or alters log entries (the log changes only in the step in which
\* a createLog call pushes its entry).
C24_LogIsAppendOnly ==
    [][/\ AppendsOrLeaves(logs, logs')
       /\ logs' # logs => \E p \in pending \ pending' :
                               logs'[Len(logs')] = p.log]_vars

\* C24 witness: account 1 and its farms have been deleted, the last two
\* entries of the log are about that account, and the log is full and has
\* evicted its oldest entry
C24_Witness ==
    /\ currentAccountId > 1
    /\ ~Has(accounts, 1)
    /\ farms = <<>>
    /\ Len(logs) = LogLimit
    /\ logs[1].id > 1
    /\ logs[Len(logs)].accountId = 1
    /\ logs[Len(logs) - 1].accountId = 1

\* C25: each lifecycle operation runs to completion before any step of
\* another begins: when a handler has made its store mutation and not yet
\* appended its log entry, the next step of the server is that append, and
\* not a step of another request.
C25_OperationsRunToCompletion ==
    [][\A p \in pending : p \notin pending' /\ logs' = PushLog(logs, p.log)]_vars

\* the entries among the first n of a log that are about the farm the entry
\* e is about: same account, same channel
About(ls, n, e) ==
    {i \in 1..n : /\ ls[i].accountId = e.accountId
                  /\ ls[i].channelName = e.channelName}

\* every stop entry has a start entry of its farm before it that no earlier
\* stop entry answers
StartsBeforeStops(ls) ==
    \A j \in {i \in DOMAIN ls : IsStop(ls[i])} :
        Cardinality({i \in About(ls, j, ls[j]) : IsStop(ls[i])})
            <= Cardinality({i \in About(ls, j, ls[j]) : IsStart(ls[i])})

\* the start entries a step appends are of farms that are in the store
StartAppendedForStoredFarm ==
    \A p \in pending \ pending' :
        p.route = "POST /api/farms" => Has(farms, p.key)

\* C26: under any interleaving of create-farm, delete-farm and
\* delete-account requests, a farm's start entry is in the log before its
\* stop entry, and no start entry is appended for a farm that has been
\* removed from the store.
C26_StartBeforeStopAndNotAfterRemoval ==
    /\ []StartsBeforeStops(logs)
    /\ [][StartAppendedForStoredFarm]_vars

\* C27: in every reachable state the retained log sequence is strictly
\* increasing in id from oldest to newest (each entry's id is below the next
\* entry's), also with several createLog calls in flight at once.
C27_LogIdsIncrease ==
    \A i \in 1..(Len(logs) - 1) : logs[i].id < logs[i + 1].id

\* C28: in every reachable state each Farm and Account record is stored
\* under a map key equal to its own id field, whatever creates and updates
\* (with arbitrary patches, patches naming id included) came before; and so
\* the cascade of deleteAccount, which deletes by each farm's id field,
\* removes exactly the farms it enumerated.
C28_RecordsAreKeyedByTheirId ==
    /\ \A k \in DOMAIN farms : farms[k].id = k
    /\ \A k \in DOMAIN accounts : accounts[k].id = k
    /\ \A id \in AccountRefs :
          DOMAIN deleteAccount(Store, id).farms
              = {k \in DOMAIN farms : farms[k].accountId # id}

\* the usernames that are taken, and those being registered by a request
\* that has passed the existence check
Taken == {users[k].username : k \in DOMAIN users}
BeingRegistered == {h.username : h \in BagToSet(hashing)}

\* C29: no two User records share a username, under any interleaving of
\* registration requests: a registration for a username that is taken, or
\* being registered by a request that passed the existence check first, is
\* rejected with a conflict and creates no user.
C29_UsernamesAreUnique ==
    /\ \A j, k \in DOMAIN users : users[j].username = users[k].username => j = k
    /\ \A body \in RegisterBodies :
          (/\ InsertUserFields \subseteq DOMAIN body
           /\ body.username \in Taken \cup BeingRegistered)
          => /\ Register(State, body).status = 409
             /\ Register(State, body).st = State

\* the boost the claim gives each preset
ClaimedBoost(preset) ==
    CASE preset = "aggressive" -> 4
      [] preset = "conservative" -> 1
      [] OTHER -> 2

\* the boosts of the optimize requests a log records, added up
RECURSIVE TotalBoost(_)
TotalBoost(ls) ==
    IF ls = <<>> THEN 0
    ELSE TotalBoost(Tail(ls))
         + (IF Head(ls).details = "Applied aggressive optimization" THEN 4
            ELSE IF Head(ls).details = "Applied conservative optimization"
            THEN 1 ELSE 2)

\* C30: starting from predictionRate 0, after any sequence of optimize
\* requests (in flight together or not, with any preset) predictionRate is
\* within [0, RateCap] and never decreases, and each completed optimize
\* raises it by its preset's boost (aggressive 4, conservative 1, otherwise
\* 2) capped at RateCap, and leaves activeFarms, pointsClaimed and
\* watchHours as they were.
C30_OptimizeRaisesRateWithinCap ==
    /\ [](currentStats.predictionRate \in 0..RateCap)
    /\ [][/\ currentStats'.predictionRate >= currentStats.predictionRate
          /\ \A p \in pending \ pending' :
                /\ currentStats'.predictionRate
                     = Min(RateCap, currentStats.predictionRate
                                      + ClaimedBoost(p.preset))
                /\ currentStats'.activeFarms = currentStats.activeFarms
                /\ currentStats'.pointsClaimed = currentStats.pointsClaimed
                /\ currentStats'.watchHours = currentStats.watchHours
          /\ pending \subseteq pending' => currentStats' = currentStats]_vars

\* C30 witness: every request has been answered, the last two were in flight
\* together and answered in the other order, and the boosts add up to more
\* than the cap the rate stands at
C30_Witness ==
    /\ pending = {}
    /\ Len(logs) = WarmupRequests + LateRequests
    /\ logs[Len(logs)].id < logs[Len(logs) - 1].id
    /\ TotalBoost(logs) > RateCap
    /\ currentStats.predictionRate = RateCap

====
